---- MODULE Spec2Model ----
(***************************************************************************)
(* Fallback-driven extraction (src/data_extractor.py) and generic upsert   *)
(* persistence (src/populatepostgres.py, against the schema created by     *)
(* src/create_sql_tables.py).                                              *)
(*                                                                         *)
(* Spec        StockDataExtractor: extract_all_data driving the extract_*  *)
(*             provider loops, one step per provider consulted.            *)
(* SpecUpsert  StockDataInserter.insert_dataframe_to_table (through        *)
(*             insert_balance_sheet) against the live balance_sheet table. *)
(* SpecRecords the single-record inserts insert_price_data,                *)
(*             insert_org_overview, insert_calendar_events and             *)
(*             insert_valuation_measures, each against its own table.      *)
(* SpecOwnership  insert_institution_ownership: DELETE and commit, then    *)
(*             insert_dataframe_to_table on institution_ownership.         *)
(* SpecPipeline   insert_all_data: the eleven persistence calls in order.  *)
(***************************************************************************)
EXTENDS Integers, Sequences, FiniteSets, TLC

VARIABLES
    api_priority,   \* self.api_priority: category -> ordered provider list
    clients,        \* the API clients passed to __init__ that are not None
    pc,             \* position of the running extract_all_data call
    dt,             \* index into data_types of the category being extracted
    idx,            \* position of the provider loop in api_priority[category]
    calls,          \* providers consulted by the current extract_* call, in order
    ret,            \* value returned by the current extract_* call
    results,        \* the results dict built by extract_all_data
    attempted,      \* per category, how many extract_* calls this run made
    ann,            \* extract_announcement_price: dates left, prices collected
    runs,           \* completed extract_all_data calls
    live,           \* how the live table was provisioned
    table,          \* the committed rows of the table, in insertion order
    ipc,            \* position of the running insert call
    frame,          \* the df / data argument of the running call
    conn,           \* the connection of the running call: none, open, closed
    last,           \* the latest completed insert call
    prev,           \* the completed call before the running or latest call
    ncalls,         \* insert calls made
    tname,          \* the table the insert calls of this behaviour write
    txn,            \* the table as the open, uncommitted transaction sees it
    before,         \* the committed rows when the running or latest call began
    today,          \* datetime.now().date()
    step,           \* insert_all_data: index of the persistence call reached
    outcomes,       \* insert_all_data: what each persistence call returned
    held,           \* insert_all_data: connections the run has open
    connection_pool, \* Connection._connection_pool: 0 (None) or a pool instance
    pool_lock,      \* Connection._pool_lock: "free" or the thread holding it
    pools,          \* the ThreadedConnectionPool instances constructed so far
    wk,             \* per thread: the Connection function it runs and where
    ctor,           \* how often the pool constructor was called
    tk              \* per ticker: its concurrent run and what it alone would store

evars == <<api_priority, clients, pc, dt, idx, calls, ret, results, attempted, ann, runs>>

uvars == <<live, table, ipc, frame, conn, last, prev, ncalls, tname, txn, before, today,
           step, outcomes>>

cvars == <<connection_pool, pool_lock, pools, wk, ctor>>

pvars == <<held, cvars, tk>>

vars == <<evars, uvars, pvars>>

\* The tickers whose runs of insert_all_data go on side by side.
Tickers == {"ACME", "BETA"}

\* The threads that call into Connection.
Workers == {"w1", "w2"}

\* No connection: the conn argument or result when there is none.
NoConn == <<0, 0>>

\* A thread outside every function of Connection, holding the connections has
\* (each a pair <<pool instance, connection>>).
Outside(has, out) ==
    [op |-> "none", pc |-> "out", pool |-> 0, arg |-> NoConn, out |-> out, has |-> has]

\* The state of the variables of pvars before anything has run:
\* _connection_pool = None, _pool_lock = threading.Lock().
PoolStart ==
    /\ held = 0
    /\ connection_pool = 0
    /\ pool_lock = "free"
    /\ pools = <<>>
    /\ wk = [w \in Workers |-> Outside({}, "none")]
    /\ ctor = 0
    /\ tk = [w \in Tickers |-> [pc |-> "idle", sym |-> w, df |-> [cols |-> <<>>, n |-> 0, val |-> 0],
                               calls |-> 0, solo |-> <<>>]]

-----------------------------------------------------------------------------
(* Bounds *)

MaxRuns == 1        \* extract_all_data calls per behaviour
MaxDates == 2       \* rows of stock.earnings_dates
MaxCalls == 2       \* insert_dataframe_to_table calls per behaviour
MaxRows == 2        \* rows (fiscal periods) of one DataFrame
MaxDays == 2        \* calendar days a behaviour spans
MaxBuilds == 2      \* calls of the pool constructor per behaviour
MaxHeld == 3        \* connections one thread holds at a time
MaxHeldClosing == 1 \* the same, where threads also close the pool

-----------------------------------------------------------------------------
(* Configuration of StockDataExtractor.__init__ *)

Providers == {"yfinance", "fmp", "finnhub", "alpha_vantage"}

ClientProviders == {"fmp", "finnhub", "alpha_vantage"}

Categories ==
    {"price", "org_overview", "calendar_events", "balance_sheet", "cash_flow",
     "income_statement", "valuation_measures", "institution_ownership",
     "executive_ownership", "announcement_price", "exec_payment_packages"}

DefaultPriority ==
    [c \in Categories |->
        CASE c = "price"                 -> <<"yfinance", "alpha_vantage">>
          [] c = "org_overview"          -> <<"yfinance", "fmp", "finnhub">>
          [] c = "calendar_events"       -> <<"yfinance", "fmp", "alpha_vantage">>
          [] c = "balance_sheet"         -> <<"yfinance", "fmp", "alpha_vantage">>
          [] c = "cash_flow"             -> <<"yfinance", "fmp", "alpha_vantage">>
          [] c = "income_statement"      -> <<"yfinance", "fmp", "alpha_vantage">>
          [] c = "valuation_measures"    -> <<"yfinance", "fmp">>
          [] c = "institution_ownership" -> <<"yfinance", "fmp">>
          [] c = "executive_ownership"   -> <<"finnhub", "yfinance">>
          [] c = "announcement_price"    -> <<"yfinance">>
          [] c = "exec_payment_packages" -> <<>>]

\* The priority table is a plain instance attribute; the configurations
\* considered are the declared one and the declared one with a single
\* category's list emptied (the "no provider available" configuration).
PriorityConfigs ==
    {DefaultPriority} \cup {[DefaultPriority EXCEPT ![c] = <<>>] : c \in Categories}

data_types ==
    <<"price", "org_overview", "calendar_events", "balance_sheet",
      "income_statement", "cash_flow", "valuation_measures",
      "institution_ownership", "executive_ownership", "announcement_price">>

\* The extract_* methods that walk api_priority[category].
FallbackCategories ==
    {"price", "org_overview", "calendar_events", "balance_sheet",
     "income_statement", "cash_flow", "valuation_measures",
     "institution_ownership", "executive_ownership"}

-----------------------------------------------------------------------------
(* Values *)

Running == [by |-> "running", fields |-> "none"]
NoData == [by |-> "none", fields |-> "none"]
Absent == [by |-> "absent", fields |-> "none"]

\* The record a branch builds from a payload.  Every inline branch stamps it
\* with the requested ticker ('symbol': ticker, institutional['symbol'] =
\* ticker), whatever symbol the payload itself names.
Record(api, payload) == [by |-> api, fields |-> payload]

\* What a provider fetch hands back when it does not raise: nothing / an empty
\* table ("empty"), a non-empty container whose data fields are all null
\* ("nulls"), data of the requested ticker ("data"), or data the provider
\* answered for a different ticker ("foreign").
Payloads == {"empty", "nulls", "data", "foreign"}

Entry(api, out, exc) == [api |-> api, out |-> out, exc |-> exc]

-----------------------------------------------------------------------------
(* The if/elif chain inside each provider loop *)

\* The (category, provider) pairs the code has a branch for.
HasBranch(cat, api) ==
    CASE cat = "price"               -> api \in {"yfinance", "alpha_vantage"}
      [] cat = "org_overview"        -> api \in {"yfinance", "fmp", "finnhub"}
      [] cat = "calendar_events"     -> api \in {"yfinance", "fmp", "alpha_vantage"}
      [] cat = "executive_ownership" -> api = "finnhub"
      [] OTHER                       -> api = "yfinance"

\* A branch is entered when it exists and, for a client-backed provider, the
\* client is configured ("elif api == 'fmp' and self.fmp_client").
Dispatch(cat, api) ==
    HasBranch(cat, api) /\ (api = "yfinance" \/ api \in clients)

\* The emptiness test each branch applies to what the fetch returned.
NonEmpty(cat, api, p) ==
    IF cat = "price" /\ api = "yfinance"
    THEN p \in {"data", "foreign"}           \* info.get('regularMarketPrice') is not None
    ELSE p \in {"nulls", "data", "foreign"}  \* "if info:", "if data:", "not df.empty"

\* How a client-backed branch formats its data: the yfinance branches build
\* the record inline; _format_fmp_overview, _format_finnhub_overview,
\* _format_alpha_vantage_price and _format_fmp_calendar are stubs whose body is
\* "pass"; _format_alpha_vantage_calendar and _format_finnhub_insider are not
\* defined, so calling them raises AttributeError inside the try block.
Formatter(cat, api) ==
    CASE api = "yfinance"                                      -> "inline"
      [] cat = "calendar_events" /\ api = "alpha_vantage"      -> "missing"
      [] cat = "executive_ownership" /\ api = "finnhub"        -> "missing"
      [] OTHER                                                 -> "stub"

\* The value a branch returns for a non-empty payload: the inline record, or
\* None from a stub formatter.
Formatted(cat, api, p) ==
    IF Formatter(cat, api) = "inline" THEN Record(api, p) ELSE NoData

-----------------------------------------------------------------------------
(* State of the running call *)

cat == data_types[dt]

Reverse(s) == [i \in 1..Len(s) |-> s[Len(s) + 1 - i]]

\* Faulty variant: the loop walks the list from its end.
plist_reversed == Reverse(api_priority[cat])

\* The list the provider loop iterates: "for api in self.api_priority[...]".
plist == api_priority[cat]

InLoop == pc = "loop" /\ idx <= Len(plist)

\* What the model keeps of a value stored in the results dict: None, or the
\* provider whose record it is (the field contents stay in ret).
Stored(v) == [by |-> v.by, fields |-> "none"]

\* An extract_* call returns: extract_all_data stores the value under the
\* category's key.
Returns(v) ==
    /\ ret' = v
    /\ results' = [results EXCEPT ![cat] = Stored(v)]
    /\ pc' = "returned"

\* Entering the extract_* method of data_types[d].
Enter(d) ==
    /\ dt' = d
    /\ idx' = 1
    /\ calls' = <<>>
    /\ ret' = Running
    /\ ann' = [left |-> 0, got |-> 0]
    /\ attempted' = [attempted EXCEPT ![data_types[d]] = @ + 1]
    /\ pc' = IF data_types[d] = "announcement_price" THEN "ann" ELSE "loop"

-----------------------------------------------------------------------------
Init ==
    /\ api_priority \in PriorityConfigs
    /\ clients \in SUBSET ClientProviders
    /\ pc = "idle"
    /\ dt = 1
    /\ idx = 1
    /\ calls = <<>>
    /\ ret = Running
    /\ results = [c \in Categories |-> Absent]
    /\ attempted = [c \in Categories |-> 0]
    /\ ann = [left |-> 0, got |-> 0]
    /\ runs = 0
    /\ live = "created"
    /\ table = <<>>
    /\ ipc = "idle"
    /\ frame = [cols |-> <<>>, n |-> 0, val |-> 0]
    /\ conn = "none"
    /\ last = [df |-> [cols |-> <<>>, n |-> 0, val |-> 0], ret |-> "none", fault |-> "none",
                count |-> 0, exit |-> "none"]
    /\ prev = [df |-> [cols |-> <<>>, n |-> 0, val |-> 0], ret |-> "none", fault |-> "none",
                count |-> 0, exit |-> "none"]
    /\ ncalls = 0
    /\ tname = "balance_sheet"
    /\ txn = <<>>
    /\ before = <<>>
    /\ today = 1
    /\ step = 0
    /\ outcomes = <<>>
    /\ PoolStart

\* extract_all_data: results = {} and the first data type is entered.
extract_all_data ==
    /\ pc \in {"idle", "done"}
    /\ runs < MaxRuns
    /\ results' = [c \in Categories |-> Absent]
    /\ attempted' = [[c \in Categories |-> 0] EXCEPT ![data_types[1]] = 1]
    /\ dt' = 1
    /\ idx' = 1
    /\ calls' = <<>>
    /\ ret' = Running
    /\ ann' = [left |-> 0, got |-> 0]
    /\ pc' = "loop"
    /\ UNCHANGED <<uvars, pvars, api_priority, clients, runs>>

\* The for loop of extract_all_data moves to the next data type.
NextDataType ==
    /\ pc = "returned"
    /\ dt < Len(data_types)
    /\ Enter(dt + 1)
    /\ UNCHANGED <<uvars, pvars, api_priority, clients, results, runs>>

\* extract_all_data returns results.
ReturnResults ==
    /\ pc = "returned"
    /\ dt = Len(data_types)
    /\ pc' = "done"
    /\ runs' = runs + 1
    /\ UNCHANGED <<uvars, pvars, api_priority, clients, dt, idx, calls, ret, results, attempted, ann>>

\* Faulty variant: the except clause returns None instead of continuing.
ProviderRaisesAborts ==
    /\ InLoop
    /\ Dispatch(cat, plist[idx])
    /\ calls' = Append(calls, Entry(plist[idx], "raise", TRUE))
    /\ Returns(NoData)
    /\ UNCHANGED <<uvars, pvars, api_priority, clients, dt, idx, attempted, ann, runs>>

\* Faulty variant: the exception is not caught and leaves extract_all_data.
ProviderRaisesPropagates ==
    /\ InLoop
    /\ Dispatch(cat, plist[idx])
    /\ calls' = Append(calls, Entry(plist[idx], "raise", TRUE))
    /\ pc' = "crashed"
    /\ UNCHANGED <<uvars, pvars, api_priority, clients, dt, idx, ret, results, attempted, ann, runs>>

\* The provider's fetch (or anything else in the try block) raises: the except
\* clause logs a warning and continues with the next list entry.
ProviderRaises ==
    /\ InLoop
    /\ Dispatch(cat, plist[idx])
    /\ calls' = Append(calls, Entry(plist[idx], "raise", TRUE))
    /\ idx' = idx + 1
    /\ UNCHANGED <<uvars, pvars, api_priority, clients, pc, dt, ret, results, attempted, ann, runs>>

\* The fetch returns something the branch judges empty: no return statement is
\* reached and the loop goes on to the next list entry.
ProviderEmpty ==
    /\ InLoop
    /\ Dispatch(cat, plist[idx])
    /\ \E p \in Payloads :
        /\ ~NonEmpty(cat, plist[idx], p)
        /\ calls' = Append(calls, Entry(plist[idx], p, FALSE))
    /\ idx' = idx + 1
    /\ UNCHANGED <<uvars, pvars, api_priority, clients, pc, dt, ret, results, attempted, ann, runs>>

\* Faulty variant: the branch keeps the value but does not return.
ProviderYieldsContinues ==
    /\ InLoop
    /\ Dispatch(cat, plist[idx])
    /\ Formatter(cat, plist[idx]) # "missing"
    /\ \E p \in Payloads :
        /\ NonEmpty(cat, plist[idx], p)
        /\ calls' = Append(calls, Entry(plist[idx], p, FALSE))
    /\ idx' = idx + 1
    /\ UNCHANGED <<uvars, pvars, api_priority, clients, pc, dt, ret, results, attempted, ann, runs>>

\* The fetch returns something judged non-empty and the branch returns the
\* formatted value.
ProviderYields ==
    /\ InLoop
    /\ Dispatch(cat, plist[idx])
    /\ Formatter(cat, plist[idx]) # "missing"
    /\ \E p \in Payloads :
        /\ NonEmpty(cat, plist[idx], p)
        /\ calls' = Append(calls, Entry(plist[idx], p, FALSE))
        /\ Returns(Formatted(cat, plist[idx], p))
    /\ UNCHANGED <<uvars, pvars, api_priority, clients, dt, idx, attempted, ann, runs>>

\* The fetch returns something judged non-empty but the branch's formatter is
\* not defined: the AttributeError is caught like any provider failure.
FormatterMissing ==
    /\ InLoop
    /\ Dispatch(cat, plist[idx])
    /\ Formatter(cat, plist[idx]) = "missing"
    /\ \E p \in Payloads :
        /\ NonEmpty(cat, plist[idx], p)
        /\ calls' = Append(calls, Entry(plist[idx], p, TRUE))
    /\ idx' = idx + 1
    /\ UNCHANGED <<uvars, pvars, api_priority, clients, pc, dt, ret, results, attempted, ann, runs>>

\* No branch of the if/elif chain matches the list entry (no branch for the
\* provider, or its client is None): the iteration does nothing.
ProviderSkipped ==
    /\ InLoop
    /\ ~Dispatch(cat, plist[idx])
    /\ calls' = Append(calls, Entry(plist[idx], "skipped", FALSE))
    /\ idx' = idx + 1
    /\ UNCHANGED <<uvars, pvars, api_priority, clients, pc, dt, ret, results, attempted, ann, runs>>

\* Faulty variant: a category whose providers all failed ends extract_all_data.
ExhaustedAborts ==
    /\ pc = "loop"
    /\ idx > Len(plist)
    /\ ret' = NoData
    /\ results' = [results EXCEPT ![cat] = Stored(NoData)]
    /\ pc' = "done"
    /\ runs' = runs + 1
    /\ UNCHANGED <<uvars, pvars, api_priority, clients, dt, idx, calls, attempted, ann>>

\* The list is exhausted: "return None" after the loop.
Exhausted ==
    /\ pc = "loop"
    /\ idx > Len(plist)
    /\ Returns(NoData)
    /\ UNCHANGED <<uvars, pvars, api_priority, clients, dt, idx, calls, attempted, ann, runs>>

-----------------------------------------------------------------------------
(* extract_announcement_price: api = 'yfinance' is fixed in the method body;   *)
(* api_priority is not read.                                                   *)

AnnInLoop == pc = "ann_loop" /\ ann.left > 0

\* stock.earnings_dates raises: the outer except returns None.
AnnEarningsRaise ==
    /\ pc = "ann"
    /\ calls' = Append(calls, Entry("yfinance", "raise", TRUE))
    /\ Returns(NoData)
    /\ UNCHANGED <<uvars, pvars, api_priority, clients, dt, idx, attempted, ann, runs>>

\* earnings_dates is None or empty: return None.
AnnEarningsEmpty ==
    /\ pc = "ann"
    /\ calls' = Append(calls, Entry("yfinance", "empty", FALSE))
    /\ Returns(NoData)
    /\ UNCHANGED <<uvars, pvars, api_priority, clients, dt, idx, attempted, ann, runs>>

\* earnings_dates has n rows: the loop over its index starts.
AnnEarningsDates ==
    /\ pc = "ann"
    /\ \E n \in 1..MaxDates : ann' = [left |-> n, got |-> 0]
    /\ calls' = Append(calls, Entry("yfinance", "data", FALSE))
    /\ pc' = "ann_loop"
    /\ UNCHANGED <<uvars, pvars, api_priority, clients, dt, idx, ret, results, attempted, runs>>

\* yf.download (or the price lookup) raises: the outer except returns None,
\* whatever was collected so far.
AnnDownloadRaise ==
    /\ AnnInLoop
    /\ calls' = Append(calls, Entry("yfinance", "raise", TRUE))
    /\ Returns(NoData)
    /\ UNCHANGED <<uvars, pvars, api_priority, clients, dt, idx, attempted, ann, runs>>

\* hist_data is empty, or the day before / after is not in it: nothing is
\* appended for this date.
AnnDownloadNoPrice ==
    /\ AnnInLoop
    /\ calls' = Append(calls, Entry("yfinance", "empty", FALSE))
    /\ ann' = [ann EXCEPT !.left = @ - 1]
    /\ UNCHANGED <<uvars, pvars, api_priority, clients, pc, dt, idx, ret, results, attempted, runs>>

\* Both prices are found: a row is appended to announcement_prices.
AnnDownloadPrices ==
    /\ AnnInLoop
    /\ calls' = Append(calls, Entry("yfinance", "data", FALSE))
    /\ ann' = [left |-> ann.left - 1, got |-> ann.got + 1]
    /\ UNCHANGED <<uvars, pvars, api_priority, clients, pc, dt, idx, ret, results, attempted, runs>>

\* After the loop: None when nothing was collected, else the DataFrame.
AnnReturn ==
    /\ pc = "ann_loop"
    /\ ann.left = 0
    /\ Returns(IF ann.got = 0 THEN NoData ELSE Record("yfinance", "data"))
    /\ UNCHANGED <<uvars, pvars, api_priority, clients, dt, idx, calls, attempted, ann, runs>>

-----------------------------------------------------------------------------
Next ==
    \/ extract_all_data
    \/ NextDataType
    \/ ReturnResults
    \/ ProviderRaises
    \/ ProviderEmpty
    \/ ProviderYields
    \/ FormatterMissing
    \/ ProviderSkipped
    \/ Exhausted
    \/ AnnEarningsRaise
    \/ AnnEarningsEmpty
    \/ AnnEarningsDates
    \/ AnnDownloadRaise
    \/ AnnDownloadNoPrice
    \/ AnnDownloadPrices
    \/ AnnReturn

Spec == Init /\ [][Next]_vars

-----------------------------------------------------------------------------
(* Reading the log of the current extract_* call *)

InFallbackCall == pc \in {"loop", "returned"} /\ cat \in FallbackCategories

FallbackReturned == pc = "returned" /\ cat \in FallbackCategories

\* The list entry was dispatched to a provider (a fetch was made).
Invoked(e) == e.out # "skipped"

\* The provider's fetch returned something its branch judges non-empty.
Yielded(e) == e.out \in Payloads /\ NonEmpty(cat, e.api, e.out)

\* The provider raised, or returned something its branch judges empty.
Failed(e) == e.out = "raise" \/ (e.out \in Payloads /\ ~NonEmpty(cat, e.api, e.out))

InvokedCount == Cardinality({i \in 1..Len(calls) : Invoked(calls[i])})

\* A provider that could still be dispatched lies beyond the last one consulted.
UntriedRemains ==
    \E j \in (Len(calls) + 1)..Len(api_priority[cat]) : Dispatch(cat, api_priority[cat][j])

-----------------------------------------------------------------------------
C2_AllFailGivesNoData ==
    /\ pc # "crashed"
    /\ ( /\ FallbackReturned
         /\ \A i \in 1..Len(calls) : Failed(calls[i]) \/ ~Invoked(calls[i]) )
       => (ret = NoData /\ results[cat] = Stored(NoData))
    /\ ( /\ pc = "returned"
         /\ cat = "announcement_price"
         /\ (ann.got = 0 \/ calls[Len(calls)].out = "raise") )
       => (ret = NoData /\ results[cat] = Stored(NoData))

\* org_overview with all three providers invoked: one raises, the others are empty.
C2_Witness ==
    /\ FallbackReturned
    /\ cat = "org_overview"
    /\ Len(calls) = 3
    /\ calls[1].out = "raise"
    /\ calls[2].out = "empty"
    /\ calls[3].out = "empty"
    /\ ret = NoData

(* C3: when a provider raises and it is not the last entry of the priority     *)
(* list, the call is not aborted: it is still running at the next entry, and   *)
(* once it has gone on the next entry was consulted (invoked when it has a     *)
(* branch and a configured client).                                            *)
C3_RaiseContinues ==
    InFallbackCall =>
        \A i \in 1..Len(calls) :
            (calls[i].out = "raise" /\ i < Len(api_priority[cat])) =>
                \/ (i = Len(calls) /\ pc = "loop" /\ idx = i + 1 /\ ret = Running)
                \/ /\ i < Len(calls)
                   /\ calls[i + 1].api = api_priority[cat][i + 1]
                   /\ Dispatch(cat, calls[i + 1].api) => Invoked(calls[i + 1])

\* calendar_events: yfinance raises and fmp is then invoked in the same call.
C3_Witness ==
    /\ FallbackReturned
    /\ cat = "calendar_events"
    /\ Len(calls) >= 2
    /\ calls[1].out = "raise"
    /\ calls[2].api = "fmp"
    /\ Invoked(calls[2])

(* C4: a provider that returns an empty result (no value, empty table, a       *)
(* record whose data fields are all null, a formatted record that is None) is  *)
(* treated as failed: the method never returns None or an all-null record      *)
(* while a provider that could still be tried remains in the list.             *)
C4_EmptyNeverReturnedEarly ==
    (FallbackReturned /\ (ret = NoData \/ ret.fields = "nulls")) => ~UntriedRemains

(* C5: when yfinance fails and alpha_vantage returns a non-empty quote,        *)
(* extract_price_data returns a record (not None) that comes from              *)
(* alpha_vantage.                                                              *)
C5_SecondProviderRecord ==
    ( /\ FallbackReturned
      /\ cat = "price"
      /\ Len(calls) = 2
      /\ Failed(calls[1])
      /\ calls[2].api = "alpha_vantage"
      /\ Yielded(calls[2]) )
    => (ret # NoData /\ ret.by = "alpha_vantage")

(* C6: within one extract_* call the entries of api_priority[category] are     *)
(* consulted in list order, each at most once, in at most one pass; a provider *)
(* is invoked only after every entry before it raised, returned empty or was   *)
(* skipped.                                                                    *)
C6_ListOrderOnePass ==
    InFallbackCall =>
        /\ Len(calls) <= Len(api_priority[cat])
        /\ idx <= Len(api_priority[cat]) + 1
        /\ pc = "loop" => idx = Len(calls) + 1
        /\ \A i \in 1..Len(calls) : calls[i].api = api_priority[cat][i]
        /\ \A i, j \in 1..Len(calls) : i # j => calls[i].api # calls[j].api
        /\ \A j \in 1..Len(calls) :
              Invoked(calls[j]) =>
                  \A i \in 1..(j - 1) :
                      Failed(calls[i]) \/ ~Invoked(calls[i]) \/ calls[i].exc

\* org_overview: yfinance empty, fmp skipped (no client), finnhub invoked third.
C6_Witness ==
    /\ FallbackReturned
    /\ cat = "org_overview"
    /\ Len(calls) = 3
    /\ calls[1].out = "empty"
    /\ calls[2].out = "skipped"
    /\ calls[3].api = "finnhub"
    /\ Invoked(calls[3])

(* C7: for every category whose priority list is empty, announcement_price     *)
(* included, extraction yields None and no provider fetch is attempted.        *)
C7_EmptyListNoFetch ==
    (pc \in {"loop", "ann", "ann_loop", "returned"} /\ api_priority[cat] = <<>>) =>
        /\ \A i \in 1..Len(calls) : ~Invoked(calls[i])
        /\ pc = "returned" => ret = NoData

(* C8: in extract_all_data every category of data_types is attempted exactly   *)
(* once, whatever the outcome of the categories before it: the categories up   *)
(* to the current one have been entered once, the later ones not yet, and at   *)
(* the end all of them once.                                                   *)
C8_EveryCategoryOnce ==
    /\ pc \in {"loop", "ann", "ann_loop", "returned"} =>
          \A i \in 1..Len(data_types) :
              attempted[data_types[i]] = IF i <= dt THEN 1 ELSE 0
    /\ pc = "done" => \A i \in 1..Len(data_types) : attempted[data_types[i]] = 1

\* A finished run in which the first two categories failed totally and a later
\* one still produced data.
C8_Witness ==
    /\ pc = "done"
    /\ results["price"] = Stored(NoData)
    /\ results["org_overview"] = Stored(NoData)
    /\ results["announcement_price"].by = "yfinance"
    /\ \A i \in 1..Len(data_types) : attempted[data_types[i]] = 1

(* C9: the mapping returned by extract_all_data has an entry for every key of  *)
(* api_priority, exec_payment_packages included.                               *)
C9_EntryForEveryCategory ==
    pc = "done" => \A c \in DOMAIN api_priority : results[c] # Absent

-----------------------------------------------------------------------------------------------------------------------------------------------------
(* The live tables (src/create_sql_tables.py) as PostgreSQL keeps them.  Each   *)
(* table is modelled with its symbol column, the further column its ON CONFLICT *)
(* clause names, one data column standing for the rest, and created_at; the     *)
(* SERIAL id is left out of the stored rows.                                    *)

DataframeTables == {"balance_sheet", "institution_ownership"}

RecordTables == {"price", "org_overview", "calendar_events", "valuation_measures"}

\* Column names as the CREATE TABLE statements write them.
DDLColumns ==
    CASE tname = "balance_sheet" ->
            {"id", "symbol", "asOfDate", "TotalAssets", "created_at"}
      [] tname = "institution_ownership" ->
            {"id", "symbol", "organization", "position", "created_at"}
      [] tname = "price" ->
            {"id", "symbol", "regularMarketTime", "regularMarketPrice", "created_at"}
      [] tname = "org_overview" ->
            {"id", "symbol", "industry", "created_at"}
      [] tname = "calendar_events" ->
            {"id", "symbol", "earnings_date", "revenue_average", "created_at"}
      [] tname = "valuation_measures" ->
            {"id", "symbol", "asOfDate", "PriceToBookRatio", "created_at"}
      [] tname = "quarterly_price" ->
            {"id", "symbol", "quarter", "year", "avg_price", "created_at"}

\* PostgreSQL folds an unquoted identifier to lower case.
Fold(name) ==
    CASE name = "asOfDate"           -> "asofdate"
      [] name = "TotalAssets"        -> "totalassets"
      [] name = "regularMarketTime"  -> "regularmarkettime"
      [] name = "regularMarketPrice" -> "regularmarketprice"
      [] name = "PriceToBookRatio"   -> "pricetobookratio"
      [] OTHER                       -> name

Range(s) == {s[i] : i \in 1..Len(s)}

\* The columns each insert names in its ON CONFLICT clause: the conflict_key
\* argument of insert_dataframe_to_table, or the clause of the literal statement.
conflict_key ==
    CASE tname = "balance_sheet"         -> <<"symbol", "asOfDate">>
      [] tname = "institution_ownership" -> <<"symbol", "organization">>
      [] tname = "price"                 -> <<"symbol", "regularMarketTime">>
      [] tname = "org_overview"          -> <<"symbol">>
      [] tname = "calendar_events"       -> <<"symbol", "earnings_date">>
      [] tname = "valuation_measures"    -> <<"symbol", "asOfDate">>
      [] tname = "quarterly_price"       -> <<"symbol", "quarter", "year">>

\* The table columns the ON CONFLICT clause resolves to.
KeyColumns == {Fold(k) : k \in Range(conflict_key)}

\* CREATE TABLE IF NOT EXISTS leaves an existing table as it is.  The live table
\* is absent (create_all_tables never ran), the one create_all_tables creates
\* ("created": id is its only key), or one provisioned beforehand with the
\* unique index on the columns that the ON CONFLICT clause names ("indexed").
LiveSchemas == {"absent", "created", "indexed"}

UniqueIndexes ==
    CASE live = "absent"  -> {}
      [] live = "created" -> {{"id"}}
      [] live = "indexed" -> {{"id"}, KeyColumns}

\* The columns a stored row has in the model.
RowColumns == {Fold(c) : c \in DDLColumns} \ {"id"}

NullOf(c) == IF c = "symbol" THEN "NULL" ELSE 0

-----------------------------------------------------------------------------
(* StockDataInserter.insert_dataframe_to_table, called by insert_balance_sheet  *)
(* and by insert_institution_ownership                                          *)

ticker == "ACME"

\* df is None or df.empty; for a single-record insert, data is None or {}.
NoneFrame == [cols |-> <<>>, n |-> 0, val |-> 0]

\* Column lists a caller's DataFrame may carry.  For balance_sheet: the live
\* table's spelling, the spelling of extract_balance_sheet and the DDL, the key
\* columns alone, no key column, a column the table does not have, and no table
\* column at all.  For institution_ownership: the frame
\* extract_institution_ownership builds from stock.institutional_holders.
ColumnLists ==
    IF tname = "institution_ownership"
    THEN { <<"Date Reported", "organization", "position", "symbol">> }
    ELSE { <<"symbol", "asofdate", "totalassets">>,
           <<"symbol", "asOfDate", "TotalAssets">>,
           <<"symbol", "asofdate">>,
           <<"totalassets">>,
           <<"symbol", "asofdate", "totalassets", "extra">>,
           <<"extra">> }

\* The amounts a DataFrame with these columns can carry: 10 or 20 in its amount
\* column, nothing to tell apart when it has none.
Amounts(c) ==
    IF \E j \in 1..Len(c) : Fold(c[j]) \in {"totalassets", "position"} THEN {10, 20} ELSE {0}

\* A DataFrame of n rows: row i is fiscal period i (holder i) of the ticker,
\* every row carrying the same amount val.
Frames ==
    {NoneFrame} \cup
    UNION {{[cols |-> c, n |-> k, val |-> v] : k \in 1..MaxRows, v \in Amounts(c)} :
              c \in ColumnLists}

FrameValue(df, i, c) ==
    CASE Fold(c) = "symbol"                      -> ticker
      [] Fold(c) \in {"asofdate", "organization"} -> i
      [] Fold(c) \in {"totalassets", "position"}  -> df.val
      [] OTHER                                   -> 0

\* Faulty variant: the column lookup answers with the columns of the DDL even
\* when the table does not exist.
table_columns_of_ddl == {Fold(c) : c \in DDLColumns}

\* SELECT column_name FROM information_schema.columns WHERE table_name = ...
\* : the folded names, or nothing when the table does not exist.
table_columns == IF live = "absent" THEN {} ELSE {Fold(c) : c \in DDLColumns}

\* [col for col in df.columns if col in table_columns]
df_columns(df) == SelectSeq(df.cols, LAMBDA c : c \in table_columns)

\* [col for col in df_columns if col not in conflict_key]
update_columns(df) == SelectSeq(df_columns(df), LAMBDA c : c \notin Range(conflict_key))

\* Faulty variant: an empty update_str does not make the statement fail.
StatementErrorButEmptySet(df) ==
    \/ \E k \in Range(conflict_key) : Fold(k) \notin table_columns
    \/ KeyColumns \notin UniqueIndexes

\* The statement INSERT ... ON CONFLICT (conflict_str) DO UPDATE SET update_str,
\* created_at = CURRENT_TIMESTAMP is rejected when update_str is empty ("SET ,"
\* is a syntax error), when a conflict column is not a column of the table, or
\* when no unique index is on exactly the conflict columns.
StatementError(df) ==
    \/ update_columns(df) = <<>>
    \/ \E k \in Range(conflict_key) : Fold(k) \notin table_columns
    \/ KeyColumns \notin UniqueIndexes

\* The row proposed for insertion from df's row i; columns outside df_columns
\* take their default (NULL, created_at the current timestamp).
NewRow(df, i, now) ==
    [c \in RowColumns |->
        IF c = "created_at" THEN now
        ELSE IF c \in Range(df_columns(df)) THEN FrameValue(df, i, c)
        ELSE NullOf(c)]

\* The arbiter index on the conflict columns finds a conflict; NULLs never
\* conflict.
Conflicts(old, new) ==
    \A k \in KeyColumns : new[k] # NullOf(k) /\ old[k] = new[k]

\* Faulty variant: ON CONFLICT DO NOTHING, the stored row stays as it is.
UpdatedNothing(old, new, df) ==
    old

\* ON CONFLICT DO UPDATE SET <update_columns> = EXCLUDED.<...>, created_at = now
Updated(old, new, df) ==
    [c \in RowColumns |->
        IF c = "created_at" \/ c \in Range(update_columns(df)) THEN new[c] ELSE old[c]]

UpsertRow(t, new, df) ==
    IF \E j \in 1..Len(t) : Conflicts(t[j], new)
    THEN [j \in 1..Len(t) |-> IF Conflicts(t[j], new) THEN Updated(t[j], new, df) ELSE t[j]]
    ELSE Append(t, new)

RECURSIVE UpsertRows(_, _, _, _)
UpsertRows(t, df, i, now) ==
    IF i > df.n THEN t
    ELSE UpsertRows(UpsertRow(t, NewRow(df, i, now), df), df, i + 1, now)

\* execute_values(cursor, insert_query, values): every row of the call, inside
\* the transaction of the call's connection.
execute_values(t, df, now) == UpsertRows(t, df, 1, now)

\* The call ends (return or raise): the finally clause has closed what was open,
\* and what the transaction had not committed is gone.
Completes(r, f, t, e) ==
    /\ table' = t
    /\ txn' = <<>>
    /\ last' = [df |-> frame, ret |-> r, fault |-> f, count |-> Len(t), exit |-> e]
    /\ ipc' = "idle"
    /\ UNCHANGED <<live, frame, prev, ncalls, tname, before, today, step, outcomes>>

\* The extractor at rest, no insert call made yet.
InserterStart ==
    /\ api_priority = DefaultPriority
    /\ clients = {}
    /\ pc = "idle"
    /\ dt = 1
    /\ idx = 1
    /\ calls = <<>>
    /\ ret = Running
    /\ results = [c \in Categories |-> Absent]
    /\ attempted = [c \in Categories |-> 0]
    /\ ann = [left |-> 0, got |-> 0]
    /\ runs = 0
    /\ table = <<>>
    /\ ipc = "idle"
    /\ frame = NoneFrame
    /\ conn = "none"
    /\ last = [df |-> NoneFrame, ret |-> "none", fault |-> "none", count |-> 0, exit |-> "none"]
    /\ prev = [df |-> NoneFrame, ret |-> "none", fault |-> "none", count |-> 0, exit |-> "none"]
    /\ ncalls = 0
    /\ txn = <<>>
    /\ before = <<>>
    /\ today = 1
    /\ step = 0
    /\ outcomes = <<>>
    /\ PoolStart

InitUpsert ==
    /\ InserterStart
    /\ tname = "balance_sheet"
    /\ live \in LiveSchemas

\* insert_dataframe_to_table(df, ...): "if df is None or df.empty: return False";
\* otherwise the call goes on to get_db_connection.
insert_dataframe_to_table ==
    /\ ipc = "idle"
    /\ ncalls < MaxCalls
    /\ \E df \in Frames :
        /\ frame' = df
        /\ ipc' = IF df = NoneFrame THEN "empty" ELSE "connect"
    /\ ncalls' = ncalls + 1
    /\ conn' = "none"
    /\ before' = table
    /\ prev' = last
    /\ UNCHANGED <<evars, pvars, live, table, last, tname, txn, today, step, outcomes>>

\* The early return for an absent or empty DataFrame (or record).
ReturnNoData ==
    /\ ipc = "empty"
    /\ Completes("False", "none", table, "no_data")
    /\ UNCHANGED <<evars, pvars, conn>>

\* psycopg2.connect succeeds; conn.cursor() follows; the transaction starts on
\* the committed rows.
get_db_connection ==
    /\ ipc = "connect"
    /\ conn' = "open"
    /\ txn' = table
    /\ ipc' = "try"
    /\ UNCHANGED <<evars, pvars, live, table, frame, last, prev, ncalls, tname, before, today,
                   step, outcomes>>

\* psycopg2.connect raises: get_db_connection logs and re-raises, and the
\* exception leaves the insert method, which called it outside its try block.
ConnectionFails ==
    /\ ipc = "connect"
    /\ Completes("raised", "connect", table, "connect_error")
    /\ UNCHANGED <<evars, pvars, conn>>

\* psycopg2.connect succeeds and conn.cursor() raises.  The line stands before
\* the try block, so neither the except nor the finally clause runs: the
\* exception leaves the insert method with the connection still open.
CursorFails ==
    /\ ipc = "connect"
    /\ conn' = "open"
    /\ Completes("raised", "cursor", table, "cursor_error")
    /\ UNCHANGED <<evars, pvars>>

\* No column of df is a column of the live table: df_clean.empty, return False.
NoMatchingColumns ==
    /\ ipc = "try"
    /\ df_columns(frame) = <<>>
    /\ conn' = "closed"
    /\ Completes("False", "none", table, "no_columns")
    /\ UNCHANGED <<evars, pvars>>

\* The statement is rejected, or the database fails while it runs: the except
\* clause logs, rolls back and returns False.
StatementFails ==
    /\ ipc = "try"
    /\ df_columns(frame) # <<>>
    /\ \E f \in {"none", "db_error"} :
        /\ StatementError(frame) \/ f = "db_error"
        /\ Completes("False", f, table, "db_error")
    /\ conn' = "closed"
    /\ UNCHANGED <<evars, pvars>>

\* Faulty variant: the connection is in autocommit mode, so the rows are
\* committed as the statement runs and a failing commit cannot undo them.
ExecutesAutocommit ==
    /\ ipc = "try"
    /\ df_columns(frame) # <<>>
    /\ ~StatementError(frame)
    /\ txn' = execute_values(table, frame, ncalls)
    /\ table' = execute_values(table, frame, ncalls)
    /\ ipc' = "commit"
    /\ UNCHANGED <<evars, pvars, live, frame, conn, last, prev, ncalls, tname, before, today,
                   step, outcomes>>

\* execute_values runs the statement for every row of df; nothing is committed.
Executes ==
    /\ ipc = "try"
    /\ df_columns(frame) # <<>>
    /\ ~StatementError(frame)
    /\ txn' = execute_values(table, frame, ncalls)
    /\ ipc' = "commit"
    /\ UNCHANGED <<evars, pvars, live, table, frame, conn, last, prev, ncalls, tname, before,
                   today, step, outcomes>>

\* conn.commit() succeeds: return True.
Commits ==
    /\ ipc = "commit"
    /\ Completes("True", "none", txn, "committed")
    /\ conn' = "closed"
    /\ UNCHANGED <<evars, pvars>>

\* conn.commit() raises: the except clause logs, rolls back and returns False.
CommitFails ==
    /\ ipc = "commit"
    /\ Completes("False", "db_error", table, "db_error")
    /\ conn' = "closed"
    /\ UNCHANGED <<evars, pvars>>

\* The try block raised and conn.rollback() in the except clause raises too
\* (the connection is lost): after the finally clause the exception leaves the
\* insert method.  The server discards the uncommitted transaction.
RollbackFails ==
    /\ ipc \in {"try", "commit"}
    /\ Completes("raised", "rollback", table, "rollback_error")
    /\ conn' = "closed"
    /\ UNCHANGED <<evars, pvars>>

NextUpsert ==
    \/ insert_dataframe_to_table
    \/ ReturnNoData
    \/ get_db_connection
    \/ ConnectionFails
    \/ CursorFails
    \/ NoMatchingColumns
    \/ StatementFails
    \/ Executes
    \/ Commits
    \/ CommitFails
    \/ RollbackFails

SpecUpsert == InitUpsert /\ [][NextUpsert]_vars

-----------------------------------------------------------------------------
(* Reading the two latest insert_dataframe_to_table calls *)

\* The stored rows whose conflict key is (ticker, fiscal period i).
RowsOfKey(i) ==
    {j \in 1..Len(table) : table[j]["symbol"] = ticker /\ table[j]["asofdate"] = i}

\* The DataFrame carries both conflict-key columns, in some spelling.
HasKeyColumns(df) ==
    \A k \in Range(conflict_key) : \E j \in 1..Len(df.cols) : Fold(df.cols[j]) = Fold(k)

\* Two calls were made with the same non-empty DataFrame, which carries the key
\* columns and a data column under the names the live table has; the table
\* exists, and the database was reachable and did not fail.
SameFrameTwice ==
    /\ ipc = "idle"
    /\ ncalls >= 2
    /\ live # "absent"
    /\ last.df = prev.df
    /\ last.df # NoneFrame
    /\ HasKeyColumns(last.df)
    /\ {Fold(k) : k \in Range(conflict_key)} \subseteq Range(df_columns(last.df))
    /\ \E c \in Range(update_columns(last.df)) :
          Fold(c) \notin {Fold(k) : k \in Range(conflict_key)}
    /\ last.fault = "none"
    /\ prev.fault = "none"

(* C10: calling insert_dataframe_to_table twice with identical rows and the     *)
(* same conflict key leaves exactly one stored row per conflict-key value of    *)
(* the rows, and the row count after the second call equals the row count       *)
(* after the first.                                                             *)
C10_UpsertTwiceOneRowPerKey ==
    SameFrameTwice =>
        /\ last.count = prev.count
        /\ \A i \in 1..last.df.n : Cardinality(RowsOfKey(i)) = 1

\* The latest call was handed a DataFrame with the key columns, a data column
\* and a column the table does not have; the table exists, and the database was
\* reachable and did not fail.
ExtraColumnCall ==
    /\ ipc = "idle"
    /\ ncalls >= 1
    /\ live # "absent"
    /\ last.df # NoneFrame
    /\ last.df.cols = <<"symbol", "asofdate", "totalassets", "extra">>
    /\ last.fault = "none"

(* C11: insert_dataframe_to_table persists exactly the incoming columns that   *)
(* are also columns of the live table: rows with columns {symbol, asofdate,    *)
(* totalassets, extra} written to a table without the column extra are stored  *)
(* with symbol, asofdate and totalassets populated, and no error is reported.  *)
C11_ExtraColumnDropped ==
    ExtraColumnCall =>
        /\ last.ret = "True"
        /\ \A i \in 1..last.df.n :
              \E j \in 1..Len(table) :
                  /\ table[j]["symbol"] = ticker
                  /\ table[j]["asofdate"] = i
                  /\ table[j]["totalassets"] = last.df.val

\* Row i of the running call's DataFrame, as the statement proposes it.
Incoming(i) == NewRow(frame, i, ncalls)

(* C12: when insert_dataframe_to_table commits a row whose conflict key         *)
(* matches a stored row, every intersected non-key column of the stored row    *)
(* takes the incoming value and created_at is refreshed, while the             *)
(* conflict-key columns of the stored row keep their values.                   *)
C12_ConflictOverwrites ==
    [][Commits =>
        \A j \in 1..Len(table) : \A i \in 1..frame.n :
            Conflicts(table[j], Incoming(i)) =>
                /\ \A c \in Range(df_columns(frame)) \ KeyColumns :
                      table'[j][c] = FrameValue(frame, i, c)
                /\ table'[j]["created_at"] = ncalls
                /\ table'[j]["created_at"] # table[j]["created_at"]
                /\ \A k \in KeyColumns : table'[j][k] = table[j][k]]_vars

\* Two committed calls wrote the same keys with different amounts: the stored
\* rows carry the second call's amount and timestamp, and no row was added.
C12_Witness ==
    /\ ipc = "idle"
    /\ ncalls = 2
    /\ prev.exit = "committed"
    /\ last.exit = "committed"
    /\ last.df.val # prev.df.val
    /\ "totalassets" \in Range(df_columns(last.df))
    /\ Len(table) = Len(before)
    /\ Len(table) >= 1
    /\ \A j \in 1..Len(table) :
          /\ before[j]["totalassets"] = prev.df.val
          /\ table[j]["totalassets"] = last.df.val
          /\ table[j]["created_at"] = 2
          /\ table[j]["asofdate"] = before[j]["asofdate"]

(* C13: one insert_dataframe_to_table call is atomic: while it runs the table   *)
(* holds the rows it held before the call, and when it has ended the table     *)
(* holds either every row of the call (the call returned True) or exactly the  *)
(* rows it held before the call.                                               *)
C13_CallAtomic ==
    /\ ipc # "idle" => table = before
    /\ (ipc = "idle" /\ ncalls >= 1) =>
          IF last.ret = "True"
          THEN table = execute_values(before, last.df, ncalls)
          ELSE table = before

\* A two-row call whose statement was acceptable failed at the database after
\* an earlier call had stored a row: the table is as it was before the call.
C13_Witness ==
    /\ ipc = "idle"
    /\ prev.exit = "committed"
    /\ last.exit = "db_error"
    /\ last.fault = "db_error"
    /\ last.df.n = 2
    /\ ~StatementError(last.df)
    /\ Len(before) = 1
    /\ table = before

\* A column the ON CONFLICT clause names is not among the columns of df that
\* the live table has.
KeyColumnMissing(df) == \E k \in KeyColumns : k \notin Range(df_columns(df))

(* C14: when a declared conflict-key column is not among the schema-intersected *)
(* columns of the incoming rows, insert_dataframe_to_table does not return     *)
(* True and stores nothing: the table holds the rows it held before the call.  *)
C14_MissingKeyIsError ==
    (/\ ipc = "idle"
     /\ ncalls >= 1
     /\ last.df # NoneFrame
     /\ KeyColumnMissing(last.df)) =>
        /\ last.ret # "True"
        /\ table = before

\* The call found nothing to insert: df None or empty, or no column in common
\* with the live table.
NothingToInsert(c) == c.exit \in {"no_data", "no_columns"}

\* The call met a database error: connecting, opening the cursor, executing,
\* committing or rolling back.
DatabaseError(c) ==
    c.exit \in {"connect_error", "cursor_error", "db_error", "rollback_error"}

(* C15: what insert_dataframe_to_table gives its caller when there is nothing  *)
(* to insert differs from what it gives its caller for a database error: of    *)
(* two completed calls, one of each kind, the outcomes are different.          *)
C15_NoDataDistinctFromError ==
    (ipc = "idle" /\ ncalls >= 2) =>
        /\ (NothingToInsert(prev) /\ DatabaseError(last)) => prev.ret # last.ret
        /\ (DatabaseError(prev) /\ NothingToInsert(last)) => prev.ret # last.ret

-----------------------------------------------------------------------------
(* The single-record inserts: insert_price_data, insert_org_overview,           *)
(* insert_calendar_events, insert_valuation_measures                            *)

\* The keys of the data dict that hold a value: what extract_price_data,
\* extract_org_overview, extract_calendar_events (with and without an earnings
\* date) and extract_valuation_measures build.
RecordKeys ==
    CASE tname = "price"              -> { <<"symbol", "regularMarketPrice">> }
      [] tname = "org_overview"       -> { <<"symbol", "industry">> }
      [] tname = "calendar_events"    -> { <<"symbol", "earnings_date", "revenue_average">>,
                                           <<"symbol", "revenue_average">> }
      [] tname = "valuation_measures" -> { <<"symbol", "PriceToBookRatio">> }
      [] OTHER                        -> {}

\* A data dict: one record carrying the amount val; None or {} is NoneFrame.
Records ==
    {NoneFrame} \cup {[cols |-> c, n |-> 1, val |-> v] : c \in RecordKeys, v \in {10, 20}}

\* The columns the literal INSERT statement lists, as the table knows them.
\* insert_price_data does not list regularMarketTime.
InsertColumns ==
    CASE tname = "price"              -> {"symbol", "regularmarketprice"}
      [] tname = "org_overview"       -> {"symbol", "industry"}
      [] tname = "calendar_events"    -> {"symbol", "earnings_date", "revenue_average"}
      [] tname = "valuation_measures" -> {"symbol", "pricetobookratio", "asofdate"}
      [] tname = "quarterly_price"    -> {"symbol", "quarter", "year", "avg_price"}
      [] OTHER                        -> {}

\* What the statement does on a conflict: DO NOTHING or DO UPDATE SET.
OnConflict ==
    IF tname \in {"price", "valuation_measures"} THEN "nothing" ELSE "update"

\* The columns of the DO UPDATE SET list besides created_at.
SetColumns ==
    CASE tname = "org_overview"    -> {"industry"}
      [] tname = "calendar_events" -> {"revenue_average"}
      [] tname = "quarterly_price" -> {"avg_price"}
      [] OTHER                     -> {}

\* The quarter and the year of the i-th quarter of a two-year price history
\* (q.quarter and q.year of the resampled index), which begins in a fourth
\* quarter.
QuarterOf(i) == ((i + 2) % 4) + 1

YearOf(i) == 1 + ((i + 2) \div 4)

\* The value bound to a listed column: %(symbol)s, the earnings date of the
\* record, data['asOfDate'] = datetime.now().date(), the quarter and year of
\* the d.n-th quarterly record, or the record's amount.
Param(d, c) ==
    CASE c = "symbol"        -> ticker
      [] c = "earnings_date" -> 1
      [] c = "asofdate"      -> today
      [] c = "quarter"       -> QuarterOf(d.n)
      [] c = "year"          -> YearOf(d.n)
      [] OTHER               -> d.val

\* The row the statement proposes; unlisted columns take their default.
RecordRow(d, now) ==
    [c \in RowColumns |->
        IF c = "created_at" THEN now
        ELSE IF c \in InsertColumns THEN Param(d, c)
        ELSE NullOf(c)]

\* The statement is rejected when the table does not exist or has no unique
\* index on exactly the columns of its ON CONFLICT clause.
RecordStatementError == KeyColumns \notin UniqueIndexes

\* cursor.execute(insert_query, data) inside the call's transaction.
execute(t, d, now) ==
    IF \E j \in 1..Len(t) : Conflicts(t[j], RecordRow(d, now))
    THEN IF OnConflict = "nothing"
         THEN t
         ELSE [j \in 1..Len(t) |->
                  IF Conflicts(t[j], RecordRow(d, now))
                  THEN [c \in RowColumns |->
                           IF c \in SetColumns \cup {"created_at"}
                           THEN RecordRow(d, now)[c] ELSE t[j][c]]
                  ELSE t[j]]
    ELSE Append(t, RecordRow(d, now))

\* A single-record insert is entered with data d; early says whether its first
\* line returns False.
EnterRecord(d, early) ==
    /\ ipc = "idle"
    /\ ncalls < MaxCalls
    /\ frame' = d
    /\ ipc' = IF early THEN "empty" ELSE "connect"
    /\ ncalls' = ncalls + 1
    /\ conn' = "none"
    /\ before' = table
    /\ prev' = last
    /\ UNCHANGED <<evars, pvars, live, table, last, tname, txn, today, step, outcomes>>

\* "if not data: return False"
insert_price_data ==
    /\ tname = "price"
    /\ \E d \in Records : EnterRecord(d, d = NoneFrame)

insert_org_overview ==
    /\ tname = "org_overview"
    /\ \E d \in Records : EnterRecord(d, d = NoneFrame)

\* "if not data or data.get('earnings_date') is None: return False"
insert_calendar_events ==
    /\ tname = "calendar_events"
    /\ \E d \in Records : EnterRecord(d, d = NoneFrame \/ "earnings_date" \notin Range(d.cols))

insert_valuation_measures ==
    /\ tname = "valuation_measures"
    /\ \E d \in Records : EnterRecord(d, d = NoneFrame)

\* The statement is rejected, or the database fails while it runs: the except
\* clause logs, rolls back and returns False.
RecordFails ==
    /\ ipc = "try"
    /\ \E f \in {"none", "db_error"} :
        /\ RecordStatementError \/ f = "db_error"
        /\ Completes("False", f, table, "db_error")
    /\ conn' = "closed"
    /\ UNCHANGED <<evars, pvars>>

\* cursor.execute runs the statement; nothing is committed yet.
RecordExecutes ==
    /\ ipc = "try"
    /\ ~RecordStatementError
    /\ txn' = execute(table, frame, ncalls)
    /\ ipc' = "commit"
    /\ UNCHANGED <<evars, pvars, live, table, frame, conn, last, prev, ncalls, tname, before,
                   today, step, outcomes>>

\* The date changes between two calls.
Midnight ==
    /\ ipc = "idle"
    /\ today < MaxDays
    /\ today' = today + 1
    /\ UNCHANGED <<evars, pvars, live, table, ipc, frame, conn, last, prev, ncalls, tname, txn,
                   before, step, outcomes>>

InitRecords ==
    /\ InserterStart
    /\ tname \in RecordTables
    /\ live \in LiveSchemas

NextRecords ==
    \/ insert_price_data
    \/ insert_org_overview
    \/ insert_calendar_events
    \/ insert_valuation_measures
    \/ ReturnNoData
    \/ get_db_connection
    \/ ConnectionFails
    \/ CursorFails
    \/ RecordFails
    \/ RecordExecutes
    \/ Commits
    \/ CommitFails
    \/ RollbackFails
    \/ Midnight

SpecRecords == InitRecords /\ [][NextRecords]_vars

-----------------------------------------------------------------------------
(* Reading the two latest single-record inserts *)

\* The column standing for the table's data columns.
DataColumn == CHOOSE c \in RowColumns \ (KeyColumns \cup {"created_at"}) : TRUE

\* Two calls were made with a record each, the table exists, and the database
\* was reachable and did not fail.
TwoRecordCalls ==
    /\ ipc = "idle"
    /\ ncalls >= 2
    /\ live # "absent"
    /\ prev.df # NoneFrame
    /\ last.df # NoneFrame
    /\ prev.exit \notin {"no_data", "none"}
    /\ last.exit # "no_data"
    /\ prev.fault = "none"
    /\ last.fault = "none"

(* C16: persisting price is first-write-wins on (symbol, regularMarketTime):   *)
(* after a first insert_price_data for a ticker, a second one for the same     *)
(* ticker adds no row, and the price table holds exactly one row for the key.  *)
C16_PriceFirstWriteWins ==
    (tname = "price" /\ TwoRecordCalls) =>
        /\ last.count = prev.count
        /\ Cardinality({j \in 1..Len(table) : table[j]["symbol"] = ticker}) = 1

(* C17: for org_overview, calendar_events and valuation_measures a second       *)
(* persist of a record with the same conflict key and different non-key values *)
(* leaves the stored row holding the second write's values.                    *)
C17_OthersLastWriteWins ==
    (/\ tname \in {"org_overview", "calendar_events", "valuation_measures"}
     /\ TwoRecordCalls
     /\ today = 1
     /\ prev.ret = "True"
     /\ prev.df.val # last.df.val) =>
        /\ Len(table) = 1
        /\ table[1][DataColumn] = last.df.val

-----------------------------------------------------------------------------
(* StockDataInserter.insert_all_data: the persistence calls in order, each      *)
(* taken by what it hands back to insert_all_data                               *)

\* The calls insert_all_data makes, in order.
PersistCalls ==
    << "insert_price_data", "insert_org_overview", "insert_calendar_events",
       "insert_balance_sheet", "insert_income_statement", "insert_cash_flow",
       "insert_valuation_measures", "insert_institution_ownership",
       "insert_executive_ownership", "insert_announcement_price",
       "calculate_and_insert_quarterly_price" >>

\* The call insert_all_data has reached is at position p of its body: "idle"
\* before its first line, "delete" inside the try block of
\* insert_institution_ownership, "insert" at the call of
\* insert_dataframe_to_table that ends insert_institution_ownership, "try"
\* inside the try block that executes the INSERT.
CallAt(p) ==
    /\ step \in 1..Len(PersistCalls)
    /\ Len(outcomes) = step - 1
    /\ ipc = p

\* The call returns r (its result is discarded), and insert_all_data goes on to
\* its next line; after the last call it returns.
CallReturns(r) ==
    /\ outcomes' = Append(outcomes, r)
    /\ step' = step + 1
    /\ ipc' = "idle"

\* An exception leaves the call.  insert_all_data has no try block, so the
\* exception leaves insert_all_data at this line: no later call is made.
\* calculate_and_insert_quarterly_price wraps its whole body in try/except and
\* returns False instead.
CallRaises ==
    IF PersistCalls[step] = "calculate_and_insert_quarterly_price"
    THEN CallReturns("False")
    ELSE /\ outcomes' = Append(outcomes, "raised")
         /\ ipc' = "idle"
         /\ UNCHANGED step

\* insert_all_data(ticker, data) is entered.
insert_all_data ==
    /\ step = 0
    /\ step' = 1
    /\ UNCHANGED <<evars, pvars, live, table, ipc, frame, conn, last, prev, ncalls, tname,
                   txn, before, today, outcomes>>

\* The call returns False before it connects: it was handed None or an empty
\* frame, or the price history it fetched is empty.
\* insert_institution_ownership has no such return at its head; the
\* insert_dataframe_to_table call that ends it has.
ReturnsEarly ==
    /\ \/ CallAt("idle") /\ PersistCalls[step] # "insert_institution_ownership"
       \/ CallAt("insert")
    /\ CallReturns("False")
    /\ UNCHANGED <<evars, pvars, live, table, frame, conn, last, prev, ncalls, tname, txn,
                   before, today>>

\* get_db_connection and conn.cursor() succeed: the call holds one more
\* connection and enters its try block.
Connects ==
    /\ CallAt("idle") \/ CallAt("insert")
    /\ held' = held + 1
    /\ ipc' = IF ipc = "idle" /\ PersistCalls[step] = "insert_institution_ownership"
              THEN "delete"
              ELSE "try"
    /\ UNCHANGED <<evars, cvars, tk, live, table, frame, conn, last, prev, ncalls, tname, txn,
                   before, today, step, outcomes>>

\* get_db_connection raises: no connection was opened.
ConnectRaises ==
    /\ CallAt("idle") \/ CallAt("insert")
    /\ CallRaises
    /\ UNCHANGED <<evars, pvars, live, table, frame, conn, last, prev, ncalls, tname, txn,
                   before, today>>

\* get_db_connection succeeds and conn.cursor() raises: the connection stays
\* open.
CursorRaises ==
    /\ CallAt("idle") \/ CallAt("insert")
    /\ held' = held + 1
    /\ CallRaises
    /\ UNCHANGED <<evars, cvars, tk, live, table, frame, conn, last, prev, ncalls, tname, txn,
                   before, today>>

\* Faulty variant: insert_institution_ownership keeps the connection of its
\* DELETE open when it goes on to insert_dataframe_to_table.
DeleteKeepsConnection ==
    /\ CallAt("delete")
    /\ ipc' = "insert"
    /\ UNCHANGED <<evars, pvars, live, table, frame, conn, last, prev, ncalls, tname, txn,
                   before, today, step, outcomes>>

\* insert_institution_ownership: the DELETE commits, or fails and is rolled
\* back; the finally clause closes the connection, and line 225 is reached.
DeleteCloses ==
    /\ CallAt("delete")
    /\ held' = held - 1
    /\ ipc' = "insert"
    /\ UNCHANGED <<evars, cvars, tk, live, table, frame, conn, last, prev, ncalls, tname, txn,
                   before, today, step, outcomes>>

\* insert_institution_ownership: the DELETE fails and conn.rollback() raises;
\* the finally clause closes the connection on the way out.
DeleteRaises ==
    /\ CallAt("delete")
    /\ held' = held - 1
    /\ CallRaises
    /\ UNCHANGED <<evars, cvars, tk, live, table, frame, conn, last, prev, ncalls, tname, txn,
                   before, today>>

\* The try block ends: the INSERT committed (True), or nothing matched or the
\* statement failed and was rolled back (False); the finally clause closes the
\* connection.
Closes ==
    /\ CallAt("try")
    /\ held' = held - 1
    /\ \E r \in {"True", "False"} : CallReturns(r)
    /\ UNCHANGED <<evars, cvars, tk, live, table, frame, conn, last, prev, ncalls, tname, txn,
                   before, today>>

\* The statement fails and conn.rollback() raises inside the except clause; the
\* finally clause closes the connection on the way out.
RollbackRaises ==
    /\ CallAt("try")
    /\ held' = held - 1
    /\ CallRaises
    /\ UNCHANGED <<evars, cvars, tk, live, table, frame, conn, last, prev, ncalls, tname, txn,
                   before, today>>

InitPipeline ==
    /\ InserterStart
    /\ tname = "balance_sheet"
    /\ live = "created"

NextPipeline ==
    \/ insert_all_data
    \/ ReturnsEarly
    \/ Connects
    \/ ConnectRaises
    \/ CursorRaises
    \/ DeleteCloses
    \/ DeleteRaises
    \/ Closes
    \/ RollbackRaises

SpecPipeline == InitPipeline /\ [][NextPipeline]_vars

\* insert_all_data was left by an exception of the call at index step.
Aborted == step \in 1..Len(PersistCalls) /\ Len(outcomes) = step

(* C18: in insert_all_data a persistence failure of one category does not      *)
(* propagate out of insert_all_data: the run is never left at a failing call,  *)
(* so every later call, calculate_and_insert_quarterly_price included, is      *)
(* still made.                                                                 *)
C18_FailureContained ==
    ~Aborted

-----------------------------------------------------------------------------
(* StockDataInserter.insert_institution_ownership *)

\* DELETE FROM institution_ownership WHERE symbol = ticker
DeleteOf(t) == SelectSeq(t, LAMBDA r : r["symbol"] # ticker)

\* Line 225: return self.insert_dataframe_to_table(df, ...), entered with the
\* df the method was handed.
EnterInsertDataframe == IF frame = NoneFrame THEN "empty" ELSE "connect"

\* insert_institution_ownership(ticker, df): the method goes to
\* get_db_connection without looking at df.
insert_institution_ownership ==
    /\ ipc = "idle"
    /\ ncalls < MaxCalls
    /\ \E df \in Frames : frame' = df
    /\ ipc' = "del_connect"
    /\ ncalls' = ncalls + 1
    /\ conn' = "none"
    /\ before' = table
    /\ prev' = last
    /\ UNCHANGED <<evars, pvars, live, table, last, tname, txn, today, step, outcomes>>

\* psycopg2.connect succeeds for the DELETE.
DeleteConnects ==
    /\ ipc = "del_connect"
    /\ conn' = "open"
    /\ txn' = table
    /\ ipc' = "del_try"
    /\ UNCHANGED <<evars, pvars, live, table, frame, last, prev, ncalls, tname, before, today,
                   step, outcomes>>

\* psycopg2.connect raises before the try block: the exception leaves
\* insert_institution_ownership, and line 225 is not reached.
DeleteConnectionFails ==
    /\ ipc = "del_connect"
    /\ Completes("raised", "connect", table, "connect_error")
    /\ UNCHANGED <<evars, pvars, conn>>

\* psycopg2.connect succeeds and conn.cursor() raises before the try block:
\* the exception leaves insert_institution_ownership with the connection open.
DeleteCursorFails ==
    /\ ipc = "del_connect"
    /\ conn' = "open"
    /\ Completes("raised", "cursor", table, "cursor_error")
    /\ UNCHANGED <<evars, pvars>>

\* The DELETE runs and conn.commit() commits it; the finally clause closes the
\* connection and the method goes on to line 225.
DeleteCommits ==
    /\ ipc = "del_try"
    /\ live # "absent"
    /\ table' = DeleteOf(table)
    /\ txn' = <<>>
    /\ conn' = "closed"
    /\ ipc' = EnterInsertDataframe
    /\ UNCHANGED <<evars, pvars, live, frame, last, prev, ncalls, tname, before, today, step,
                   outcomes>>

\* The DELETE or its commit raises (the table does not exist, the database
\* fails): the except clause logs and rolls back, and the method goes on to
\* line 225.
DeleteFails ==
    /\ ipc = "del_try"
    /\ txn' = <<>>
    /\ conn' = "closed"
    /\ ipc' = EnterInsertDataframe
    /\ UNCHANGED <<evars, pvars, live, table, frame, last, prev, ncalls, tname, before, today,
                   step, outcomes>>

\* conn.rollback() in the except clause raises: the exception leaves
\* insert_institution_ownership.
DeleteRollbackFails ==
    /\ ipc = "del_try"
    /\ Completes("raised", "rollback", table, "rollback_error")
    /\ conn' = "closed"
    /\ UNCHANGED <<evars, pvars>>

InitOwnership ==
    /\ InserterStart
    /\ tname = "institution_ownership"
    /\ live \in LiveSchemas

NextOwnership ==
    \/ insert_institution_ownership
    \/ DeleteConnects
    \/ DeleteConnectionFails
    \/ DeleteCursorFails
    \/ DeleteCommits
    \/ DeleteFails
    \/ DeleteRollbackFails
    \/ ReturnNoData
    \/ get_db_connection
    \/ ConnectionFails
    \/ CursorFails
    \/ NoMatchingColumns
    \/ StatementFails
    \/ Executes
    \/ Commits
    \/ CommitFails
    \/ RollbackFails

SpecOwnership == InitOwnership /\ [][NextOwnership]_vars

(* C19: when the value handed to a category's persistence step is NoData, the   *)
(* step is a no-op: after insert_institution_ownership(ticker, None) the       *)
(* institution_ownership table holds the rows it held before the call.         *)
C19_NoDataIsNoOp ==
    (/\ tname = "institution_ownership"
     /\ ipc = "idle"
     /\ ncalls >= 1
     /\ last.df = NoneFrame) =>
        table = before

\* The rows the table holds after a complete insert_institution_ownership call
\* with the rows of the running or latest call.
CompleteCall == execute_values(DeleteOf(before), frame, ncalls)

(* C20: a category's persistence is a single transaction: at every point of     *)
(* insert_institution_ownership and after it, whether it succeeded, failed or  *)
(* was cut short, the table holds either the rows it held before the call or   *)
(* the rows a complete call leaves, never the old rows deleted and the new     *)
(* rows not written.                                                           *)
C20_CategoryOneTransaction ==
    (/\ tname = "institution_ownership"
     /\ ncalls >= 1
     /\ frame # NoneFrame) =>
        table = before \/ table = CompleteCall

(* C21: every connection an insert method of StockDataInserter acquired is     *)
(* closed when the method has returned or raised, on every exit path: no       *)
(* insert call is over with its connection still open.                         *)
C21_ConnectionClosedOnExit ==
    ipc = "idle" => conn # "open"

-----------------------------------------------------------------------------
(* C22: during insert_all_data the run holds at most one database connection   *)
(* at any time, and holds none whenever an insert operation is about to        *)
(* acquire one: before each persistence call, and between the DELETE and the   *)
(* INSERT of insert_institution_ownership.                                     *)
C22_OneConnectionAtATime ==
    /\ held <= 1
    /\ (CallAt("idle") \/ CallAt("insert")) => held = 0

\* The INSERT of insert_institution_ownership holds its connection, after the
\* DELETE before it and the calls before that held and closed theirs.
C22_Witness ==
    /\ CallAt("try")
    /\ PersistCalls[step] = "insert_institution_ownership"
    /\ held = 1
    /\ \A i \in 1..(step - 1) : outcomes[i] = "True"

-----------------------------------------------------------------------------
\* The latest insert_dataframe_to_table call was handed a non-empty frame for
\* a table that does not exist, and is over without a failure of the database
\* connection itself.
MissingTableCall ==
    /\ live = "absent"
    /\ ipc = "idle"
    /\ ncalls >= 1
    /\ last.df # NoneFrame
    /\ last.fault = "none"

(* C25: when the target table does not exist, _get_table_columns returns an    *)
(* empty column set without raising, and insert_dataframe_to_table then        *)
(* returns False at "No matching columns": it raises nothing, inserts nothing  *)
(* and leaves storage unchanged.                                               *)
C25_MissingTableIsNoOp ==
    MissingTableCall =>
        /\ table_columns = {}
        /\ last.ret = "False"
        /\ last.exit = "no_columns"
        /\ table = before
        /\ conn = "closed"

\* Two such calls are over, each with a frame of rows.
C25_Witness ==
    /\ MissingTableCall
    /\ ncalls = 2
    /\ prev.exit = "no_columns"
    /\ last.exit = "no_columns"
    /\ last.df.n >= 1

-----------------------------------------------------------------------------
(* Connection: the module-level connection pool, called by several threads     *)

\* ThreadedConnectionPool(minconn=1, maxconn=5, ...)
minconn == 1
maxconn == 5

\* The connections a pool numbers: one more than maxconn, so that handing out
\* a connection beyond the capacity is a state the model can tell.
ConnIds == 1..(maxconn + 1)

\* A pool instance as its constructor leaves it: minconn connections opened and
\* idle, none checked out; by is the function whose get_connection_pool call
\* constructed it.
NewPool(by) == [used |-> {}, idle |-> 1..minconn, closed |-> FALSE, by |-> by]

\* The variables of the inserter and the extractor, which Connection leaves alone.
others == <<evars, uvars, held, tk>>

\* Thread w moves to position at of the function it runs.
Goto(w, at) == wk' = [wk EXCEPT ![w].pc = at]

\* The function thread w runs is over: w is outside again, with result out and
\* holding the connections has.
Leaves(w, has, out) == wk' = [wk EXCEPT ![w] = Outside(has, out)]

\* Thread w calls get_db_connection().
Connection_get_db_connection(w) ==
    /\ wk[w].op = "none"
    /\ Cardinality(wk[w].has) < MaxHeld
    /\ wk' = [wk EXCEPT ![w].op = "get", ![w].pc = "check", ![w].out = "none"]
    /\ UNCHANGED <<others, connection_pool, pool_lock, pools, ctor>>

\* Thread w calls return_db_connection(conn) with a connection it holds
\* ("if conn:" is true).
return_db_connection(w) ==
    /\ wk[w].op = "none"
    /\ \E c \in wk[w].has :
        wk' = [wk EXCEPT ![w].op = "return", ![w].pc = "check", ![w].arg = c,
                         ![w].out = "none"]
    /\ UNCHANGED <<others, connection_pool, pool_lock, pools, ctor>>

\* get_connection_pool, line 20: "if _connection_pool is None", read without
\* the lock.
FirstCheck(w) ==
    /\ wk[w].pc = "check"
    /\ Goto(w, IF connection_pool = 0 THEN "lock" ELSE "ret")
    /\ UNCHANGED <<others, connection_pool, pool_lock, pools, ctor>>

\* get_connection_pool, line 21: "with _pool_lock" acquires the lock, waiting
\* while another thread holds it.
Acquire(w) ==
    /\ wk[w].pc = "lock"
    /\ pool_lock = "free"
    /\ pool_lock' = w
    /\ Goto(w, "locked")
    /\ UNCHANGED <<others, connection_pool, pools, ctor>>

\* get_connection_pool, line 22: under the lock _connection_pool is not None
\* any more; the with block ends and releases the lock.
SecondCheckSkips(w) ==
    /\ wk[w].pc = "locked"
    /\ connection_pool # 0
    /\ pool_lock' = "free"
    /\ Goto(w, "ret")
    /\ UNCHANGED <<others, connection_pool, pools, ctor>>

\* Faulty variant: the thread that acquired the lock constructs a pool without
\* looking at _connection_pool again.
ConstructsUnchecked(w) ==
    /\ wk[w].pc = "locked"
    /\ ctor < MaxBuilds
    /\ ctor' = ctor + 1
    /\ pools' = Append(pools, NewPool(wk[w].op))
    /\ connection_pool' = Len(pools) + 1
    /\ pool_lock' = "free"
    /\ Goto(w, "ret")
    /\ UNCHANGED others

\* get_connection_pool, lines 22-32: under the lock _connection_pool is still
\* None; the constructor runs and its pool is assigned to _connection_pool.
Constructs(w) ==
    /\ wk[w].pc = "locked"
    /\ connection_pool = 0
    /\ ctor < MaxBuilds
    /\ ctor' = ctor + 1
    /\ pools' = Append(pools, NewPool(wk[w].op))
    /\ connection_pool' = Len(pools) + 1
    /\ pool_lock' = "free"
    /\ Goto(w, "ret")
    /\ UNCHANGED others

\* get_connection_pool, lines 33-35: the constructor raises (the database is
\* unreachable); the exception is logged, re-raised, and releases the lock.
\* get_db_connection catches it and returns None, return_db_connection
\* catches and logs it; _connection_pool stays None.
ConstructorRaises(w) ==
    /\ wk[w].pc = "locked"
    /\ connection_pool = 0
    /\ ctor + 1 < MaxBuilds
    /\ ctor' = ctor + 1
    /\ pool_lock' = "free"
    /\ Leaves(w, wk[w].has, "error")
    /\ UNCHANGED <<others, connection_pool, pools>>

\* get_connection_pool, line 37: "return _connection_pool" reads the global
\* again; the caller goes on to pool.getconn() or pool.putconn(conn).
ReturnsPool(w) ==
    /\ wk[w].pc = "ret"
    /\ wk' = [wk EXCEPT ![w].pool = connection_pool,
                        ![w].pc = IF wk[w].op = "get" THEN "getconn" ELSE "putconn"]
    /\ UNCHANGED <<others, connection_pool, pool_lock, pools, ctor>>

\* Faulty variant: the pool never counts as exhausted.
NeverExhausted(q) == FALSE

\* ThreadedConnectionPool.getconn: no idle connection and maxconn checked out.
PoolExhausted(q) ==
    /\ pools[q].idle = {}
    /\ Cardinality(pools[q].used) >= maxconn

\* The connection getconn hands out: an idle one if there is one, else a new one.
NextConn(q) ==
    LET from == IF pools[q].idle # {} THEN pools[q].idle
                ELSE ConnIds \ pools[q].used
    IN  CHOOSE c \in from : \A d \in from : c <= d

\* pool.getconn() on a live pool is called at all: the pool object exists and
\* is not closed.
Usable(q) == q # 0 /\ ~pools[q].closed

\* get_db_connection, lines 46-48: pool.getconn() hands out a connection under
\* the pool's own lock, and get_db_connection returns it.
GetconnHands(w) ==
    LET q == wk[w].pool IN
    /\ wk[w].pc = "getconn"
    /\ Usable(q)
    /\ ~PoolExhausted(q)
    /\ LET c == NextConn(q) IN
        /\ pools' = [pools EXCEPT ![q].idle = @ \ {c}, ![q].used = @ \cup {c}]
        /\ Leaves(w, wk[w].has \cup {<<q, c>>}, "conn")
    /\ UNCHANGED <<others, connection_pool, pool_lock, ctor>>

\* get_db_connection, lines 46 and 52-54: the pool is exhausted, getconn raises
\* PoolError at once, and get_db_connection logs it and returns None.
GetconnExhausted(w) ==
    LET q == wk[w].pool IN
    /\ wk[w].pc = "getconn"
    /\ Usable(q)
    /\ PoolExhausted(q)
    /\ Leaves(w, wk[w].has, "exhausted")
    /\ UNCHANGED <<others, connection_pool, pool_lock, pools, ctor>>

\* get_db_connection, lines 46 and 52-54: getconn raises for another reason
\* (pool is None, the pool is closed, or opening a new connection fails), and
\* get_db_connection logs it and returns None.
GetconnRaises(w) ==
    LET q == wk[w].pool IN
    /\ wk[w].pc = "getconn"
    /\ Usable(q) => (pools[q].idle = {} /\ ~PoolExhausted(q))
    /\ Leaves(w, wk[w].has, "error")
    /\ UNCHANGED <<others, connection_pool, pool_lock, pools, ctor>>

\* return_db_connection, line 64: pool.putconn(conn) on the pool that issued
\* conn takes it from the checked-out connections, keeping it idle if fewer
\* than minconn are idle and closing it otherwise.
PutconnReturns(w) ==
    LET q == wk[w].pool
        c == wk[w].arg[2] IN
    /\ wk[w].pc = "putconn"
    /\ Usable(q)
    /\ wk[w].arg[1] = q
    /\ pools' = [pools EXCEPT
                    ![q].used = @ \ {c},
                    ![q].idle = IF Cardinality(@) < minconn THEN @ \cup {c} ELSE @]
    /\ Leaves(w, wk[w].has \ {wk[w].arg}, "returned")
    /\ UNCHANGED <<others, connection_pool, pool_lock, ctor>>

\* return_db_connection, lines 64-66: putconn raises (pool is None, the pool
\* is closed, or conn is not a connection this pool handed out); the exception
\* is logged and the connection is given up without being put back.
PutconnRaises(w) ==
    LET q == wk[w].pool IN
    /\ wk[w].pc = "putconn"
    /\ ~(Usable(q) /\ wk[w].arg[1] = q)
    /\ Leaves(w, wk[w].has \ {wk[w].arg},
              IF Usable(q) THEN "foreign" ELSE "error")
    /\ UNCHANGED <<others, connection_pool, pool_lock, pools, ctor>>

\* Thread w calls close_connection_pool().
close_connection_pool(w) ==
    /\ wk[w].op = "none"
    /\ wk' = [wk EXCEPT ![w].op = "close", ![w].pc = "c_check", ![w].out = "none"]
    /\ UNCHANGED <<others, connection_pool, pool_lock, pools, ctor>>

\* close_connection_pool, line 74: "if _connection_pool:", read without the lock.
CloseChecks(w) ==
    /\ wk[w].pc = "c_check"
    /\ IF connection_pool # 0
       THEN Goto(w, "closeall")
       ELSE Leaves(w, wk[w].has, "none")
    /\ UNCHANGED <<others, connection_pool, pool_lock, pools, ctor>>

\* close_connection_pool, line 75: _connection_pool.closeall() closes every
\* connection of the pool, the checked-out ones included.
ClosesAll(w) ==
    /\ wk[w].pc = "closeall"
    /\ Usable(connection_pool)
    /\ pools' = [pools EXCEPT ![connection_pool].closed = TRUE,
                              ![connection_pool].idle = {}]
    /\ Goto(w, "clear")
    /\ UNCHANGED <<others, connection_pool, pool_lock, ctor>>

\* close_connection_pool, line 75: another thread cleared or closed the pool
\* since line 74; closeall raises and the exception leaves the function.
CloseallRaises(w) ==
    /\ wk[w].pc = "closeall"
    /\ ~Usable(connection_pool)
    /\ Leaves(w, wk[w].has, "error")
    /\ UNCHANGED <<others, connection_pool, pool_lock, pools, ctor>>

\* close_connection_pool, line 76: _connection_pool = None.
ClearsPool(w) ==
    /\ wk[w].pc = "clear"
    /\ connection_pool' = 0
    /\ Leaves(w, wk[w].has, "closed")
    /\ UNCHANGED <<others, pool_lock, pools, ctor>>

\* Threads calling get_db_connection and return_db_connection; nothing closes
\* the pool.
NextPool ==
    \E w \in Workers :
        \/ Connection_get_db_connection(w)
        \/ return_db_connection(w)
        \/ FirstCheck(w)
        \/ Acquire(w)
        \/ SecondCheckSkips(w)
        \/ Constructs(w)
        \/ ConstructorRaises(w)
        \/ ReturnsPool(w)
        \/ GetconnHands(w)
        \/ GetconnExhausted(w)
        \/ GetconnRaises(w)
        \/ PutconnReturns(w)

SpecPool == InitPipeline /\ [][NextPool]_vars

\* Threads calling get_db_connection, return_db_connection and
\* close_connection_pool, each thread holding up to MaxHeldClosing connections
\* (too few to exhaust a pool).
NextShutdown ==
    \E w \in Workers :
        \/ Connection_get_db_connection(w) /\ Cardinality(wk[w].has) < MaxHeldClosing
        \/ return_db_connection(w)
        \/ FirstCheck(w)
        \/ Acquire(w)
        \/ SecondCheckSkips(w)
        \/ Constructs(w)
        \/ ConstructorRaises(w)
        \/ ReturnsPool(w)
        \/ GetconnHands(w)
        \/ GetconnRaises(w)
        \/ PutconnReturns(w)
        \/ PutconnRaises(w)
        \/ close_connection_pool(w)
        \/ CloseChecks(w)
        \/ ClosesAll(w)
        \/ CloseallRaises(w)
        \/ ClearsPool(w)

SpecShutdown == InitPipeline /\ [][NextShutdown]_vars

-----------------------------------------------------------------------------
(* C23: under any interleaving of get_db_connection and return_db_connection   *)
(* by concurrent threads, the pool never has more than maxconn connections     *)
(* checked out, and no connection is held by two threads at the same time.     *)
C23_PoolCapacityAndExclusive ==
    /\ \A q \in 1..Len(pools) : Cardinality(pools[q].used) <= maxconn
    /\ \A w, v \in Workers : w # v => wk[w].has \cap wk[v].has = {}

\* All maxconn connections are checked out, some by each thread, and a further
\* get_db_connection call has reached pool.getconn().
C23_Witness ==
    /\ Len(pools) = 1
    /\ Cardinality(pools[1].used) = maxconn
    /\ \A w \in Workers : wk[w].has # {}
    /\ \E w \in Workers : wk[w].pc = "getconn"

(* C24: get_db_connection called while the pool is exhausted waits until some  *)
(* thread returns a connection: it never returns to its caller without a       *)
(* connection, on the ground of exhaustion, while another thread holds a       *)
(* connection it can still return.                                             *)
C24_BlocksWhenExhausted ==
    \A w \in Workers :
        wk[w].out = "exhausted" => \A v \in Workers \ {w} : wk[v].has = {}

(* C29 as stated: with no close_connection_pool, the pool constructor runs at  *)
(* most once.                                                                  *)
C29_ConstructorRunsOnce ==
    ctor <= 1

(* C29: with no close_connection_pool, under any interleaving of concurrent    *)
(* get_connection_pool calls at most one pool instance is ever constructed,    *)
(* and every caller get_connection_pool returns to receives that instance.     *)
C29_OnePoolInstance ==
    /\ Len(pools) <= 1
    /\ \A w \in Workers :
        wk[w].pc \in {"getconn", "putconn"} =>
            wk[w].pool = 1 /\ connection_pool = 1

\* Two calls raced past the unlocked check: one constructed the pool and has
\* returned it, the other holds the lock and finds the pool already there.
C29_Witness ==
    \E w, v \in Workers :
        /\ wk[w].pc = "getconn"
        /\ wk[w].pool = 1
        /\ wk[v].pc = "locked"
        /\ connection_pool = 1

(* C30: under any interleaving of get_db_connection, return_db_connection and  *)
(* close_connection_pool, return_db_connection never causes a pool to be       *)
(* constructed, and the pool it calls putconn on is the one that issued the    *)
(* connection.                                                                 *)
C30_ReturnsToIssuingPool ==
    /\ \A q \in 1..Len(pools) : pools[q].by # "return"
    /\ \A w \in Workers :
        (wk[w].pc = "putconn" /\ wk[w].pool # 0) => wk[w].pool = wk[w].arg[1]

-----------------------------------------------------------------------------
(* StockDataInserter.calculate_and_insert_quarterly_price                      *)

\* stock.history(period="2y") resampled by quarter: n quarters whose mean close
\* is val; an empty history is NoneFrame.
Histories ==
    {NoneFrame} \cup
    {[cols |-> <<"symbol", "quarter", "year", "avg_price">>, n |-> k, val |-> v] :
        k \in 1..MaxRows, v \in {10, 20}}

\* cursor.executemany(insert_query, quarterly_records): the statement once per
\* record, in order, inside the call's transaction.
RECURSIVE executemany(_, _, _, _)
executemany(t, h, i, now) ==
    IF i > h.n THEN t
    ELSE executemany(execute(t, [h EXCEPT !.n = i], now), h, i + 1, now)

\* "if hist_data.empty: return False", else on to get_db_connection.
calculate_and_insert_quarterly_price ==
    /\ tname = "quarterly_price"
    /\ \E h \in Histories : EnterRecord(h, h = NoneFrame)

\* stock.history or get_db_connection raises inside the outer try: the outer
\* except clause logs and returns False.
QuarterlyConnectionFails ==
    /\ ipc = "connect"
    /\ Completes("False", "connect", table, "connect_error")
    /\ UNCHANGED <<evars, pvars, conn>>

\* conn.cursor() raises before the inner try: the outer except clause returns
\* False and the connection stays open.
QuarterlyCursorFails ==
    /\ ipc = "connect"
    /\ conn' = "open"
    /\ Completes("False", "cursor", table, "cursor_error")
    /\ UNCHANGED <<evars, pvars>>

\* executemany runs the statement for every record; nothing is committed yet.
QuarterlyExecutes ==
    /\ ipc = "try"
    /\ ~RecordStatementError
    /\ txn' = executemany(table, frame, 1, ncalls)
    /\ ipc' = "commit"
    /\ UNCHANGED <<evars, pvars, live, table, frame, conn, last, prev, ncalls, tname, before,
                   today, step, outcomes>>

\* conn.rollback() raises inside the inner except clause; the finally clause
\* closes the connection, and the outer except clause returns False.
QuarterlyRollbackFails ==
    /\ ipc \in {"try", "commit"}
    /\ conn' = "closed"
    /\ Completes("False", "rollback", table, "rollback_error")
    /\ UNCHANGED <<evars, pvars>>

InitQuarterly ==
    /\ InserterStart
    /\ tname = "quarterly_price"
    /\ live \in LiveSchemas

NextQuarterly ==
    \/ calculate_and_insert_quarterly_price
    \/ ReturnNoData
    \/ get_db_connection
    \/ QuarterlyConnectionFails
    \/ QuarterlyCursorFails
    \/ RecordFails
    \/ QuarterlyExecutes
    \/ Commits
    \/ CommitFails
    \/ QuarterlyRollbackFails

SpecQuarterly == InitQuarterly /\ [][NextQuarterly]_vars

\* The stored rows of the i-th quarter of the ticker.
RowsOfQuarter(i) ==
    {j \in 1..Len(table) :
        /\ table[j]["symbol"] = ticker
        /\ table[j]["quarter"] = QuarterOf(i)
        /\ table[j]["year"] = YearOf(i)}

(* C26: calculate_and_insert_quarterly_price is idempotent on (symbol,         *)
(* quarter, year): after two runs over the same price history, with the        *)
(* database reachable, the table holds exactly one row for every quarter of    *)
(* the history, carrying the aggregates of the latest run.                     *)
C26_QuarterlyIdempotent ==
    (TwoRecordCalls /\ last.df = prev.df) =>
        \A i \in 1..last.df.n :
            /\ Cardinality(RowsOfQuarter(i)) = 1
            /\ \A j \in RowsOfQuarter(i) :
                table[j]["avg_price"] = last.df.val /\ table[j]["created_at"] = ncalls

-----------------------------------------------------------------------------
(* C27: a provider result whose symbol is not the requested ticker is treated  *)
(* as that provider's failure: no extract_* call returns, as the requested     *)
(* ticker's record, data a provider answered for a different ticker.           *)
C27_ForeignSymbolIsFailure ==
    ret.fields # "foreign"

-----------------------------------------------------------------------------
(* insert_institution_ownership run for two tickers side by side on one table, *)
(* each DELETE and each INSERT a transaction of its own connection             *)

\* Faulty variant: the DELETE has no WHERE clause.
DeleteAll(t, w) == <<>>

\* DELETE FROM institution_ownership WHERE symbol = %s, with the run's ticker.
DeleteFor(t, w) == SelectSeq(t, LAMBDA r : r["symbol"] # w)

\* The row proposed from row i of the frame extracted for ticker w: its symbol
\* column holds w.
NewRowFor(w, df, i, now) ==
    [NewRow(df, i, now) EXCEPT
        !["symbol"] = IF "symbol" \in Range(df_columns(df)) THEN w ELSE @]

\* execute_values for the frame of ticker w.
RECURSIVE UpsertRowsFor(_, _, _, _, _)
UpsertRowsFor(t, w, df, i, now) ==
    IF i > df.n THEN t
    ELSE UpsertRowsFor(UpsertRow(t, NewRowFor(w, df, i, now), df), w, df, i + 1, now)

\* What the runs of the tickers leave alone.
beside == <<evars, held, cvars, live, ipc, frame, conn, last, prev, ncalls, tname, txn,
            before, today, step, outcomes>>

\* The stored rows whose symbol is w.
StoredFor(w) == SelectSeq(table, LAMBDA r : r["symbol"] = w)

\* What earlier runs of insert_all_data, one after the other and over before
\* the concurrent runs begin, left in a table that accepts the upsert: the
\* rows of a frame for each ticker, stored at time 0.
EarlierRuns ==
    /\ live = "indexed"
    /\ table = <<>>
    /\ \A w \in Tickers : tk[w].calls = 0
    /\ \E fa, fb \in Frames :
        /\ fa # NoneFrame \/ fb # NoneFrame
        /\ table' = UpsertRowsFor(UpsertRowsFor(<<>>, "ACME", fa, 1, 0), "BETA", fb, 1, 0)
    /\ tk' = [w \in Tickers |-> [tk[w] EXCEPT !.solo = StoredFor(w)']]
    /\ UNCHANGED beside

\* The run of insert_all_data for ticker w calls
\* insert_institution_ownership(w, df) and opens the connection of its DELETE;
\* tk[w].sym, the ticker of the run, is w.
TickerCalls(w) ==
    /\ tk[w].pc = "idle"
    /\ tk[w].calls = 0
    /\ \E df \in Frames :
        tk' = [tk EXCEPT ![w].pc = "delete", ![w].df = df, ![w].calls = @ + 1]
    /\ UNCHANGED <<beside, table>>

\* Where the method goes after its DELETE: line 225 returns False for no data,
\* else insert_dataframe_to_table opens its own connection.
AfterDelete(w) == IF tk[w].df = NoneFrame THEN "idle" ELSE "try"

\* The DELETE runs and commits.  solo applies the same statement to the rows
\* the run of w alone would have stored.
TickerDeletes(w) ==
    /\ tk[w].pc = "delete"
    /\ live # "absent"
    /\ table' = DeleteFor(table, tk[w].sym)
    /\ tk' = [tk EXCEPT ![w].pc = AfterDelete(w), ![w].solo = DeleteFor(@, tk[w].sym)]
    /\ UNCHANGED beside

\* The DELETE fails and is rolled back; the method goes on to line 225, or the
\* exception of a failing connect, cursor or rollback ends the run.
TickerDeleteFails(w) ==
    /\ tk[w].pc = "delete"
    /\ \E at \in {AfterDelete(w), "idle"} : tk' = [tk EXCEPT ![w].pc = at]
    /\ UNCHANGED <<beside, table>>

\* insert_dataframe_to_table executes its statement and commits.
TickerUpserts(w) ==
    /\ tk[w].pc = "try"
    /\ df_columns(tk[w].df) # <<>>
    /\ ~StatementError(tk[w].df)
    /\ table' = UpsertRowsFor(table, tk[w].sym, tk[w].df, 1, tk[w].calls)
    /\ tk' = [tk EXCEPT ![w].pc = "idle",
                        ![w].solo = UpsertRowsFor(@, tk[w].sym, tk[w].df, 1, tk[w].calls)]
    /\ UNCHANGED beside

\* insert_dataframe_to_table stores nothing: no matching columns, a rejected
\* statement, or a database failure.
TickerInsertFails(w) ==
    /\ tk[w].pc = "try"
    /\ tk' = [tk EXCEPT ![w].pc = "idle"]
    /\ UNCHANGED <<beside, table>>

NextTickers ==
    \/ EarlierRuns
    \/ \E w \in Tickers :
        \/ TickerCalls(w)
        \/ TickerDeletes(w)
        \/ TickerDeleteFails(w)
        \/ TickerUpserts(w)
        \/ TickerInsertFails(w)

SpecTickers == InitOwnership /\ [][NextTickers]_vars

(* C28: when the persistence runs of two different tickers interleave, they    *)
(* are independent: under every interleaving the stored rows of each ticker    *)
(* are the rows its run alone would have left, so every DELETE and every       *)
(* upsert touched only rows whose symbol is the run's own ticker, and every    *)
(* stored row belongs to one of the two tickers.                               *)
C28_TickersIndependent ==
    /\ \A w \in Tickers : StoredFor(w) = tk[w].solo
    /\ \A j \in 1..Len(table) : table[j]["symbol"] \in Tickers

\* Both runs are over and rows of both tickers are stored; one ticker deleted
\* the rows an earlier run had left and stored new ones while rows of the
\* other were in the table.
C28_Witness ==
    /\ \A w \in Tickers : tk[w].pc = "idle" /\ tk[w].calls = 1 /\ StoredFor(w) # <<>>
    /\ \E w \in Tickers :
        /\ table[1]["symbol"] # w
        /\ table[1]["created_at"] = 0
        /\ \A j \in 1..Len(StoredFor(w)) : StoredFor(w)[j]["created_at"] = 1

-----------------------------------------------------------------------------
(* insert_institution_ownership called twice side by side for one ticker        *)

\* Run w calls insert_institution_ownership(ticker, df): both runs are for the
\* same ticker.
SameTickerCalls(w) ==
    /\ tk[w].pc = "idle"
    /\ tk[w].calls = 0
    /\ \E df \in Frames :
        tk' = [tk EXCEPT ![w].pc = "delete", ![w].sym = ticker, ![w].df = df,
                         ![w].calls = @ + 1]
    /\ UNCHANGED <<beside, table>>

NextSameTicker ==
    \E w \in Tickers :
        \/ SameTickerCalls(w)
        \/ TickerDeletes(w)
        \/ TickerDeleteFails(w)
        \/ TickerUpserts(w)
        \/ TickerInsertFails(w)

SpecSameTicker == InitOwnership /\ [][NextSameTicker]_vars

(* C31: after two concurrent insert_institution_ownership calls for the same   *)
(* ticker have both completed, the holders stored for the ticker are exactly   *)
(* the rows one of the two calls leaves when it runs alone (the last           *)
(* committer's), never a union or mix of rows of both calls.                   *)
C31_LastCommitterWins ==
    (\A w \in Tickers : tk[w].pc = "idle" /\ tk[w].calls = 1 /\ tk[w].sym = ticker) =>
        \E w \in Tickers : StoredFor(ticker) = tk[w].solo

-----------------------------------------------------------------------------
\* Every column of df that the live table has is a column of the conflict key,
\* and there is at least one.
OnlyKeyColumns(df) ==
    /\ df_columns(df) # <<>>
    /\ \A c \in Range(df_columns(df)) : c \in KeyColumns

(* C32 as stated: when every schema-intersected column of the incoming rows is a         *)
(* conflict-key column, insert_dataframe_to_table builds an ON CONFLICT update *)
(* with an empty column assignment, the statement fails, the call returns      *)
(* False and no row is stored, whether or not rows with those keys exist.      *)
C32_OnlyKeyColumnsFails ==
    (/\ ipc = "idle"
     /\ ncalls >= 1
     /\ last.df # NoneFrame
     /\ OnlyKeyColumns(last.df)
     /\ last.fault = "none") =>
        /\ update_columns(last.df) = <<>>
        /\ last.ret = "False"
        /\ table = before

\* The latest call had columns in common with the table, none of them left in
\* update_columns, and met no failure of the database connection itself.
EmptyAssignmentCall ==
    /\ ipc = "idle"
    /\ ncalls >= 1
    /\ last.df # NoneFrame
    /\ df_columns(last.df) # <<>>
    /\ update_columns(last.df) = <<>>
    /\ last.fault = "none"

(* C32: when every schema-intersected column of the incoming rows is spelled   *)
(* as an entry of conflict_key, so that update_columns is empty,               *)
(* insert_dataframe_to_table builds an ON CONFLICT update with an empty column *)
(* assignment, the statement fails, the call returns False and no row is       *)
(* stored, whether or not rows with those keys already exist.                  *)
C32_EmptyAssignmentFails ==
    EmptyAssignmentCall =>
        /\ last.ret = "False"
        /\ last.exit = "db_error"
        /\ table = before

\* Such a call was made on a table that accepts the upsert and already holds
\* a row of the ticker.
C32_Witness ==
    /\ EmptyAssignmentCall
    /\ live = "indexed"
    /\ last.df.cols = <<"symbol", "asOfDate", "TotalAssets">>
    /\ \E j \in 1..Len(before) : before[j]["symbol"] = ticker

====
